---- MODULE Spec2Model ----
(***************************************************************************)
(* A model of the terminal Wordle game of matt-sellick/wordle:             *)
(*   src/src/lib.rs   Word::try_new, Board (check_guess, check_matches,    *)
(*                    draw, get_input, hard_check, win_message, stats)     *)
(*   src/src/main.rs  the welcome screen, the turn loop and the game end   *)
(*   src/src/tests.rs the strings and lists Word::try_new is tested with   *)
(*                                                                         *)
(* Spec is the game; SpecMatch, SpecHard, SpecWord and SpecStats apply     *)
(* check_matches, hard_check, Word::try_new and Board::stats to inputs     *)
(* drawn from bounded sets.                                                *)
(*                                                                         *)
(* A String is a sequence of one-character strings, a Word is the String   *)
(* that Word::try_new accepted.  Indices are 1-based: index i here is      *)
(* index i-1 of the Rust code (and the "i-th letter" of its messages).     *)
(* The words are ASCII, so char_indices() and chars().nth() agree.         *)
(***************************************************************************)
EXTENDS Naturals, Sequences, FiniteSets

VARIABLES
    hard,         \* Board.hard
    contrast,     \* Board.contrast
    win,          \* Board.win
    turn,         \* Board.turn
    secret_word,  \* Board.secret_word (contents)
    guesses,      \* Board.guesses (contents of each Word)
    pc,           \* where main() is
    input,        \* the String the latest get_input() returned
    msg,          \* the message line under the board (print_msg)
    check,        \* <<the Result of hard_check>> for the latest input, <<>> if not called
    rows,         \* the coloured rows draw() has put on the board
    legal,        \* the valid-guess list that Word::try_new is given
    made,         \* <<the Result of Word::try_new>> once it was applied on its own
    file,         \* ./wordle_stats.txt: whether it exists, and its bytes
    stats         \* the stats vector of Board::stats, <<>> before it is loaded

vars ==
    <<hard, contrast, win, turn, secret_word, guesses, pc, input, msg, check,
      rows, legal, made, file, stats>>

----------------------------------------------------------------------------
(* Bounds and program constants *)

\* number of entries of the legal-guess list (valid_guesses)
NumWords == 4

\* size of the alphabet the inputs of check_matches are drawn from
NumLetters == 4

\* size of the alphabet the inputs of hard_check are drawn from
NumHardLetters == 2

\* the stats files hold the counters 0..MaxCount and the two largest u16
MaxCount == 2

\* Word::try_new is given the strings of up to MaxRawLen characters
MaxRawLen == 6

\* a Word has exactly 5 characters
WordLen == 5

\* main's turn loop: for turn in 1..=6
MaxTurns == 6

----------------------------------------------------------------------------
(* Characters *)

UpperSeq == <<"A", "E", "R", "O", "M", "Y", "C", "G", "N", "P", "T", "H">>
LowerSeq == <<"a", "e", "r", "o", "m", "y", "c", "g", "n", "p", "t", "h">>

Upper == {UpperSeq[i] : i \in DOMAIN UpperSeq}
Lower == {LowerSeq[i] : i \in DOMAIN LowerSeq}

\* char::is_alphabetic
is_alphabetic(c) == c \in Upper \cup Lower

\* char to uppercase: a lowercase letter becomes its capital, any other
\* character is left as it is
char_to_uppercase(c) ==
    IF c \in Lower
    THEN UpperSeq[CHOOSE i \in DOMAIN LowerSeq : LowerSeq[i] = c]
    ELSE c

\* String::to_uppercase
to_uppercase(s) == [i \in DOMAIN s |-> char_to_uppercase(s[i])]

\* s.chars().filter(|c| *c == letter).count()
count(letter, s) == Cardinality({i \in DOMAIN s : s[i] = letter})

----------------------------------------------------------------------------
(* Word lists *)

MasterList ==
    << <<"C", "R", "A", "N", "E">>,
       <<"G", "R", "A", "P", "E">>,
       <<"T", "R", "A", "C", "E">>,
       <<"E", "R", "R", "O", "R">>,
       <<"G", "R", "A", "P", "H">>,
       <<"M", "A", "R", "R", "Y">>,
       <<"T", "R", "E", "A", "T">> >>

\* ValidGuesses::load().contents
valid_guesses == SubSeq(MasterList, 1, NumWords)

\* the words SecretWords::load().choose_secret() picks from
secret_options == {valid_guesses[i] : i \in DOMAIN valid_guesses}

----------------------------------------------------------------------------
(* Word::try_new *)

Ok(w) == [ok |-> TRUE, word |-> w, err |-> ""]
Err(e) == [ok |-> FALSE, word |-> <<>>, err |-> e]

\* try_new with the word looked up as it was typed
try_new_as_typed(word, valid_options) ==
    IF Len(word) # WordLen
    THEN Err("Please choose a 5-letter word")
    ELSE IF ~ \A i \in DOMAIN word : is_alphabetic(word[i])
    THEN Err("Please choose a real word")
    ELSE LET found == \E i \in DOMAIN valid_options : valid_options[i] = word
         IN  IF ~found THEN Err("Not in word list") ELSE Ok(word)

\* try_new with the word list looked at first
try_new_list_first(word, valid_options) ==
    LET up == to_uppercase(word)
        found == \E i \in DOMAIN valid_options : valid_options[i] = up
    IN  IF found THEN Ok(up)
        ELSE IF Len(word) # WordLen
        THEN Err("Please choose a 5-letter word")
        ELSE IF ~ \A i \in DOMAIN word : is_alphabetic(word[i])
        THEN Err("Please choose a real word")
        ELSE Err("Not in word list")

try_new(word, valid_options) ==
    IF Len(word) # WordLen
    THEN Err("Please choose a 5-letter word")
    ELSE IF ~ \A i \in DOMAIN word : is_alphabetic(word[i])
    THEN Err("Please choose a real word")
    ELSE LET up == to_uppercase(word)
             found == \E i \in DOMAIN valid_options : valid_options[i] = up
         IN  IF ~found THEN Err("Not in word list") ELSE Ok(up)

----------------------------------------------------------------------------
(* Board::check_guess *)

last(s) == s[Len(s)]

\* check_guess looking at the first guess
check_guess_first(gs, secret) ==
    IF gs # <<>> THEN gs[1] = secret ELSE FALSE

check_guess(gs, secret) ==
    IF gs # <<>> THEN last(gs) = secret ELSE FALSE

----------------------------------------------------------------------------
(* Board::check_matches *)

\* match_counter.get(&l).unwrap_or(&0): a letter without an entry counts 0
EmptyCounter == [l \in Upper |-> 0]

\* match_counter.entry(l).and_modify(|count| *count += 1).or_insert(1)
bump(counter, l) == [counter EXCEPT ![l] = @ + 1]

\* green_pass with the counter left alone: the green matches are not counted
RECURSIVE green_pass_uncounted(_, _, _, _)
green_pass_uncounted(secret, guess, st, i) ==
    IF i > WordLen THEN st
    ELSE IF secret[i] = guess[i]
         THEN green_pass_uncounted(secret, guess,
                         [col |-> [st.col EXCEPT ![i] = "Green"],
                          cnt |-> st.cnt], i + 1)
         ELSE green_pass_uncounted(secret, guess, st, i + 1)

\* the first loop: same-index matches, index by index
RECURSIVE green_pass(_, _, _, _)
green_pass(secret, guess, st, i) ==
    IF i > WordLen THEN st
    ELSE IF secret[i] = guess[i]
         THEN green_pass(secret, guess,
                         [col |-> [st.col EXCEPT ![i] = "Green"],
                          cnt |-> bump(st.cnt, secret[i])], i + 1)
         ELSE green_pass(secret, guess, st, i + 1)

\* the second loop: for each secret letter (outer, si) and each guess letter
\* (inner, gi); k counts the iterations of the two nested loops, 0..24
RECURSIVE yellow_pass(_, _, _, _)
yellow_pass(secret, guess, st, k) ==
    IF k >= WordLen * WordLen THEN st
    ELSE LET si == (k \div WordLen) + 1
             gi == (k % WordLen) + 1
             secret_letter == secret[si]
         IN  IF /\ guess[gi] = secret_letter
                /\ count(secret_letter, secret) > st.cnt[secret_letter]
                /\ st.col[gi] = "Grey"
             THEN yellow_pass(secret, guess,
                              [col |-> [st.col EXCEPT ![gi] = "Yellow"],
                               cnt |-> bump(st.cnt, secret_letter)], k + 1)
             ELSE yellow_pass(secret, guess, st, k + 1)

\* check_matches without the counter: every guess letter the secret word
\* holds somewhere is Yellow
check_matches_unbudgeted(secret, guess) ==
    [i \in 1..WordLen |->
        IF secret[i] = guess[i] THEN "Green"
        ELSE IF \E j \in 1..WordLen : secret[j] = guess[i] THEN "Yellow"
        ELSE "Grey"]

check_matches(secret, guess) ==
    LET start == [col |-> [i \in 1..WordLen |-> "Grey"], cnt |-> EmptyCounter]
        greens == green_pass(secret, guess, start, 1)
    IN  yellow_pass(secret, guess, greens, 0).col

----------------------------------------------------------------------------
(* Board::hard_check *)

Pass == [ok |-> TRUE, err |-> "", panic |-> FALSE]
Fail(e) == [ok |-> FALSE, err |-> e, panic |-> FALSE]
\* self.guesses.last().unwrap() on an empty Vec
Panic == [ok |-> FALSE, err |-> "", panic |-> TRUE]

\* match index + 1 { 1 => "1st ...", 2 => "2nd ...", ... }
Ordinal == <<"1st", "2nd", "3rd", "4th", "5th">>

must_place(i, letter) == Ordinal[i] \o " letter must be " \o letter
must_contain(letter) == "Guess must contain " \o letter

\* green_check holding every letter of the previous guess that the secret
\* word has anywhere to its spot
RECURSIVE green_check_any_spot(_, _, _, _)
green_check_any_spot(prev, secret, attempt, i) ==
    IF i > Len(prev) THEN ""
    ELSE IF count(prev[i], secret) > 0 /\ attempt[i] # prev[i]
         THEN must_place(i, prev[i])
         ELSE green_check_any_spot(prev, secret, attempt, i + 1)

\* the first loop: a green letter of the previous guess that the attempt
\* does not have in the same spot; "" when the loop runs to its end
RECURSIVE green_check(_, _, _, _)
green_check(prev, secret, attempt, i) ==
    IF i > Len(prev) THEN ""
    ELSE IF secret[i] = prev[i] /\ attempt[i] # prev[i]
         THEN must_place(i, prev[i])
         ELSE green_check(prev, secret, attempt, i + 1)

\* yellow_check asking for as many as the secret word holds, not the minimum
RECURSIVE yellow_check_in_secret(_, _, _, _)
yellow_check_in_secret(prev, secret, attempt, i) ==
    IF i > Len(prev) THEN ""
    ELSE LET letter == prev[i]
             in_secret == count(letter, secret)
             in_attempt == count(letter, attempt)
         IN  IF in_attempt < in_secret
             THEN must_contain(letter)
             ELSE yellow_check_in_secret(prev, secret, attempt, i + 1)

\* required with the count in the previous guess, not the minimum
required_in_guess(letter, prev, secret) == count(letter, prev)

\* std::cmp::min(in_guess, in_secret): how many of the letter of the previous
\* guess the attempt must hold
required(letter, prev, secret) ==
    LET in_guess == count(letter, prev)
        in_secret == count(letter, secret)
    IN  IF in_guess <= in_secret THEN in_guess ELSE in_secret

\* the second loop: a letter of the previous guess the attempt holds fewer
\* times than min(in_guess, in_secret); "" when the loop runs to its end
RECURSIVE yellow_check(_, _, _, _)
yellow_check(prev, secret, attempt, i) ==
    IF i > Len(prev) THEN ""
    ELSE LET letter == prev[i]
             in_attempt == count(letter, attempt)
         IN  IF in_attempt < required(letter, prev, secret)
             THEN must_contain(letter)
             ELSE yellow_check(prev, secret, attempt, i + 1)

\* hard_check with the yellow loop run before the green loop
hard_check_yellow_first(t, gs, secret, attempt) ==
    IF t <= 1 THEN Pass
    ELSE IF gs = <<>> THEN Panic
    ELSE LET green == green_check(last(gs), secret, attempt, 1)
             yellow == yellow_check(last(gs), secret, attempt, 1)
         IN  IF yellow # "" THEN Fail(yellow)
             ELSE IF green # "" THEN Fail(green)
             ELSE Pass

\* hard_check with the guard turn < 1
hard_check_turn_zero(t, gs, secret, attempt) ==
    IF t < 1 THEN Pass
    ELSE IF gs = <<>> THEN Panic
    ELSE LET green == green_check(last(gs), secret, attempt, 1)
             yellow == yellow_check(last(gs), secret, attempt, 1)
         IN  IF green # "" THEN Fail(green)
             ELSE IF yellow # "" THEN Fail(yellow)
             ELSE Pass

\* hard_check with the guard turn <= 2
hard_check_turn_two(t, gs, secret, attempt) ==
    IF t <= 2 THEN Pass
    ELSE IF gs = <<>> THEN Panic
    ELSE LET green == green_check(last(gs), secret, attempt, 1)
             yellow == yellow_check(last(gs), secret, attempt, 1)
         IN  IF green # "" THEN Fail(green)
             ELSE IF yellow # "" THEN Fail(yellow)
             ELSE Pass

\* hard_check without the guard on the turn counter
hard_check_no_guard(t, gs, secret, attempt) ==
    IF gs = <<>> THEN Panic
    ELSE LET green == green_check(last(gs), secret, attempt, 1)
             yellow == yellow_check(last(gs), secret, attempt, 1)
         IN  IF green # "" THEN Fail(green)
             ELSE IF yellow # "" THEN Fail(yellow)
             ELSE Pass

hard_check(t, gs, secret, attempt) ==
    IF t <= 1 THEN Pass
    ELSE IF gs = <<>> THEN Panic
    ELSE LET green == green_check(last(gs), secret, attempt, 1)
             yellow == yellow_check(last(gs), secret, attempt, 1)
         IN  IF green # "" THEN Fail(green)
             ELSE IF yellow # "" THEN Fail(yellow)
             ELSE Pass

----------------------------------------------------------------------------
(* Board::stats: the file ./wordle_stats.txt and the stats vector *)

\* Vec<u16>: the largest value of a counter
U16Max == 65535

\* the stats vector holds nine numbers: wins on turns 1-6 at 1..6 (indices
\* 0..5 of the code), failures at 7, the current streak at 8, the max streak
\* at 9
NumStats == 9

DigitSeq == <<"0", "1", "2", "3", "4", "5", "6", "7", "8", "9">>
DigitSet == {DigitSeq[i] : i \in DOMAIN DigitSeq}

digit_value(c) == (CHOOSE i \in DOMAIN DigitSeq : DigitSeq[i] = c) - 1

\* the file is absent, or holds a sequence of bytes (ASCII characters)
NoFile == [exists |-> FALSE, bytes |-> <<>>]
FileOf(bytes) == [exists |-> TRUE, bytes |-> bytes]

\* BufRead::lines(): the bytes up to each "\n", a final "\r" taken off each
\* line; bytes after the last "\n" make a last line
strip_cr(line) ==
    IF line # <<>> /\ line[Len(line)] = "\r"
    THEN SubSeq(line, 1, Len(line) - 1)
    ELSE line

RECURSIVE lines(_)
lines(bytes) ==
    IF bytes = <<>> THEN <<>>
    ELSE LET ends == {i \in DOMAIN bytes : bytes[i] = "\n"}
         IN  IF ends = {} THEN <<strip_cr(bytes)>>
             ELSE LET k == CHOOSE i \in ends : \A j \in ends : i <= j
                  IN  <<strip_cr(SubSeq(bytes, 1, k - 1))>>
                        \o lines(SubSeq(bytes, k + 1, Len(bytes)))

\* str::parse::<u16>(): an optional "+", then one decimal digit or more, the
\* value no larger than u16::MAX; anything else is an Err
ParseOk(n) == [ok |-> TRUE, number |-> n]
ParseErr == [ok |-> FALSE, number |-> 0]

\* the value of the digits from i on, acc being the value so far;
\* U16Max + 1 stands for an invalid digit or an overflow
RECURSIVE accumulate(_, _, _)
accumulate(s, i, acc) ==
    IF acc > U16Max THEN U16Max + 1
    ELSE IF i > Len(s) THEN acc
    ELSE IF s[i] \notin DigitSet THEN U16Max + 1
    ELSE accumulate(s, i + 1, acc * 10 + digit_value(s[i]))

parse_u16(s) ==
    LET digits == IF s # <<>> /\ s[1] = "+" THEN Tail(s) ELSE s
        n == accumulate(digits, 1, 0)
    IN  IF digits = <<>> \/ n > U16Max THEN ParseErr ELSE ParseOk(n)

\* lib.rs:585-594: a line that parses is pushed, a line that does not is passed
\* over, and the loop breaks once nine numbers are in the vector
RECURSIVE read_numbers(_, _, _)
read_numbers(ls, i, acc) ==
    IF i > Len(ls) \/ Len(acc) >= NumStats THEN acc
    ELSE LET p == parse_u16(ls[i])
         IN  read_numbers(ls, i + 1, IF p.ok THEN Append(acc, p.number) ELSE acc)

ZeroStats == [i \in 1..NumStats |-> 0]

\* lib.rs:582-603: the vector read from the file, or nine zeros
load(f) ==
    LET read == IF f.exists THEN read_numbers(lines(f.bytes), 1, <<>>) ELSE <<>>
    IN  IF Len(read) # NumStats THEN ZeroStats ELSE read

\* u16 addition as a release build does it (it wraps); a debug build panics
\* where overflows(a, b)
add_u16(a, b) == (a + b) % (U16Max + 1)
overflows(a, b) == a + b > U16Max

\* lib.rs:606-620: the win of turn t or the failure is counted, the streak
\* goes up or back to zero
counted(st, w, t) ==
    IF w
    THEN [st EXCEPT ![t] = add_u16(@, 1), ![8] = add_u16(@, 1)]
    ELSE [st EXCEPT ![7] = add_u16(@, 1), ![8] = 0]

\* lib.rs:621-627
raise_max(st) == IF st[8] > st[9] THEN [st EXCEPT ![9] = st[8]] ELSE st

\* update with the max streak raised before the round is counted
update_max_first(st, w, t) == counted(raise_max(st), w, t)

\* lib.rs:605-627
update(st, w, t) == raise_max(counted(st, w, t))

\* one of the "+= 1" of lib.rs:608, 611, 615 overflows
update_overflows(st, w, t) ==
    IF w THEN overflows(st[t], 1) \/ overflows(st[8], 1)
    ELSE overflows(st[7], 1)

RECURSIVE sum(_, _)
sum(st, n) == IF n = 0 THEN 0 ELSE sum(st, n - 1) + st[n]

\* lib.rs:641-642: played and won are u16 folds of "acc + x" over the first
\* seven and the first six counters; the fold overflows when the sum of the
\* seven is too large
show_overflows(st) == sum(st, 7) > U16Max

\* "{items}" of a u16: its decimal digits
RECURSIVE to_string(_)
to_string(n) ==
    IF n < 10 THEN <<DigitSeq[n + 1]>>
    ELSE to_string(n \div 10) \o <<DigitSeq[(n % 10) + 1]>>

\* lib.rs:716-717: each item is written as "{items}\n"
RECURSIVE written(_, _)
written(st, i) ==
    IF i > Len(st) THEN <<>>
    ELSE to_string(st[i]) \o <<"\n">> \o written(st, i + 1)

\* lib.rs:713: OpenOptions::new().write(true).create(true): the file is
\* created if absent, it is not truncated, and the bytes are written from its
\* start over the bytes it holds
save(f, st) ==
    LET out == written(st, 1)
        old == IF f.exists THEN f.bytes ELSE <<>>
    IN  FileOf(out \o SubSeq(old, Len(out) + 1, Len(old)))

----------------------------------------------------------------------------
(* Input sets of the specifications of the two pure functions.            *)
(* check_matches and hard_check compare letters only for equality, so a   *)
(* secret word is taken up to renaming of letters: its letters make their *)
(* first appearance in the order of UpperSeq.  The guesses and attempts   *)
(* are all words over the alphabet.  The words of MasterList are added to *)
(* each set as they are.                                                  *)

FnLetters(n) == {UpperSeq[i] : i \in 1..n}

AllWords(letters) == [1..WordLen -> letters]

Rank(c) == CHOOSE i \in DOMAIN UpperSeq : UpperSeq[i] = c

FirstUseOrdered(w) ==
    \A i \in DOMAIN w :
        \/ Rank(w[i]) = 1
        \/ \E j \in 1..(i - 1) : Rank(w[j]) = Rank(w[i]) - 1

SecretWords(n) == {w \in AllWords(FnLetters(n)) : FirstUseOrdered(w)}

ExampleWords == {MasterList[i] : i \in DOMAIN MasterList}

MatchSecrets == SecretWords(NumLetters) \cup ExampleWords
MatchWords == AllWords(FnLetters(NumLetters)) \cup ExampleWords

HardSecrets == SecretWords(NumHardLetters) \cup ExampleWords
HardWords == AllWords(FnLetters(NumHardLetters)) \cup ExampleWords

----------------------------------------------------------------------------
(* The specification of check_matches on its own: the Board holds any     *)
(* secret word and any last guess, and draw() scores the guess.           *)

InitMatch ==
    /\ hard = FALSE
    /\ contrast = FALSE
    /\ win = FALSE
    /\ turn = 1
    /\ secret_word \in MatchSecrets
    /\ \E g \in MatchWords : guesses = <<g>>
    /\ pc = "draw"
    /\ input = <<>>
    /\ msg = ""
    /\ check = <<>>
    /\ rows = <<>>
    /\ legal = valid_guesses
    /\ made = <<>>
    /\ file = NoFile
    /\ stats = <<>>

\* Board::draw on turns 1-6: the colours of the last guess go on the board
Draw ==
    /\ pc = "draw"
    /\ rows' = Append(rows, check_matches(secret_word, last(guesses)))
    /\ pc' = "check"
    /\ UNCHANGED <<hard, contrast, win, turn, secret_word, guesses, input, msg, check>>
    /\ UNCHANGED <<legal, made, file, stats>>

SpecMatch == InitMatch /\ [][Draw]_vars

----------------------------------------------------------------------------
(* The specification of hard_check on its own: the Board holds any secret *)
(* word, any turn counter and no guess or any last guess, and hard_check  *)
(* is applied to any attempt.                                             *)

InitHard ==
    /\ hard = TRUE
    /\ contrast = FALSE
    /\ win = FALSE
    /\ turn \in 0..2
    /\ secret_word \in HardSecrets
    /\ \/ guesses = <<>>
       \/ \E g \in HardWords : guesses = <<g>>
    /\ pc = "input"
    /\ input = <<>>
    /\ msg = ""
    /\ check = <<>>
    /\ rows = <<>>
    /\ legal = valid_guesses
    /\ made = <<>>
    /\ file = NoFile
    /\ stats = <<>>

ApplyHardCheck ==
    /\ pc = "input"
    /\ \E attempt \in HardWords :
        /\ input' = attempt
        /\ check' = <<hard_check(turn, guesses, secret_word, attempt)>>
    /\ pc' = "checked"
    /\ UNCHANGED <<hard, contrast, win, turn, secret_word, guesses, msg, rows>>
    /\ UNCHANGED <<legal, made, file, stats>>

SpecHard == InitHard /\ [][ApplyHardCheck]_vars

----------------------------------------------------------------------------
(* The specification of Word::try_new on its own: it is given any string   *)
(* of up to MaxRawLen characters, or one of the strings of tests.rs, and   *)
(* any list of up to two entries.                                          *)

\* a capital, a small letter and a digit
RawChars == {"A", "a", "3"}

RECURSIVE Strings(_, _)
Strings(chars, n) ==
    IF n = 0 THEN {<<>>}
    ELSE Strings(chars, n - 1) \cup [1..n -> chars]

\* tests.rs: "Mateo", "Matheo", "Mat3o"
Mateo == <<"M", "a", "t", "e", "o">>
Matheo == <<"M", "a", "t", "h", "e", "o">>
Mat3o == <<"M", "a", "t", "3", "o">>

RawInputs == Strings(RawChars, MaxRawLen) \cup {Mateo, Matheo, Mat3o}

\* what a list can hold: words, and strings that are no words
ListEntries ==
    { <<"A", "A", "A", "A", "A">>, <<"A", "A", "3", "A", "A">>,
      <<"A", "A", "A", "A">>, <<"A", "A", "A", "A", "A", "A">>,
      <<"a", "A", "A", "A", "A">>,
      to_uppercase(Mateo), to_uppercase(Matheo), to_uppercase(Mat3o) }

LegalLists ==
    {<<>>} \cup {<<e>> : e \in ListEntries}
           \cup {<<e, f>> : e \in ListEntries, f \in ListEntries}

InitWord ==
    /\ hard = FALSE
    /\ contrast = FALSE
    /\ win = FALSE
    /\ turn = 0
    /\ secret_word = MasterList[1]
    /\ guesses = <<>>
    /\ pc = "try_new"
    /\ input \in RawInputs
    /\ msg = ""
    /\ check = <<>>
    /\ rows = <<>>
    /\ legal \in LegalLists
    /\ made = <<>>
    /\ file = NoFile
    /\ stats = <<>>

ApplyTryNew ==
    /\ pc = "try_new"
    /\ made' = <<try_new(input, legal)>>
    /\ pc' = "made"
    /\ UNCHANGED <<hard, contrast, win, turn, secret_word, guesses, input, msg, check, rows>>
    /\ UNCHANGED <<legal, file, stats>>

SpecWord == InitWord /\ [][ApplyTryNew]_vars

----------------------------------------------------------------------------
(* The specification of Board::stats on its own: the round has ended won   *)
(* on any turn or failed, and the stats file is absent or holds any of the *)
(* contents below.                                                         *)

\* the text of the lines ls, each closed by "\n"
RECURSIVE text(_, _)
text(ls, i) == IF i > Len(ls) THEN <<>> ELSE ls[i] \o <<"\n">> \o text(ls, i + 1)

\* a file as Board::stats leaves it for the vector st
StatsFile(st) == FileOf(written(st, 1))

Counts == (0..MaxCount) \cup {U16Max - 1, U16Max}

\* every win and failure counter w, the streak s, the max streak m
Record(w, s, m) == [i \in 1..NumStats |-> IF i <= 7 THEN w ELSE IF i = 8 THEN s ELSE m]

RecordFiles == {StatsFile(Record(w, s, m)) : w \in Counts, s \in Counts, m \in Counts}

\* the nine lines "1" .. "9", and what can be wrong with them: a line too
\* many, a line that is not a u16, a line missing
NineLines == [i \in 1..NumStats |-> <<DigitSeq[i + 1]>>]

OddLines ==
    { <<"x">>, <<>>, <<"-", "1">>, <<"6", "5", "5", "3", "6">>, <<"7">>,
      <<"+", "7">>, <<"7", "\r">>, <<"0", "0", "7">> }

Inserted(ls, k, l) == SubSeq(ls, 1, k - 1) \o <<l>> \o SubSeq(ls, k, Len(ls))
Replaced(ls, k, l) == [ls EXCEPT ![k] = l]

OddFiles ==
    {FileOf(text(Inserted(NineLines, k, l), 1)) : k \in 1..(NumStats + 1), l \in OddLines}
        \cup {FileOf(text(Replaced(NineLines, k, l), 1)) : k \in 1..NumStats, l \in OddLines}
        \cup {FileOf(text(SubSeq(NineLines, 1, n), 1)) : n \in 0..NumStats}
        \cup {FileOf(SubSeq(text(NineLines, 1), 1, Len(text(NineLines, 1)) - 1))}

\* the record after a first round won on turn 3
WonOnThree == StatsFile(<<0, 0, 1, 0, 0, 0, 0, 1, 1>>)

\* a record with a current streak of 12
StreakOfTwelve == StatsFile(<<3, 4, 5, 0, 0, 0, 2, 12, 12>>)

StatsFiles == {NoFile, WonOnThree, StreakOfTwelve} \cup RecordFiles \cup OddFiles

InitStats ==
    /\ hard = FALSE
    /\ contrast = FALSE
    /\ win \in BOOLEAN
    /\ turn \in 1..MaxTurns
    /\ secret_word = MasterList[1]
    /\ guesses = <<>>
    /\ pc = "stats"
    /\ input = <<>>
    /\ msg = ""
    /\ check = <<>>
    /\ rows = <<>>
    /\ legal = valid_guesses
    /\ made = <<>>
    /\ file \in StatsFiles
    /\ stats = <<>>

----------------------------------------------------------------------------
(* The game: main() *)

\* what the player can have typed when get_input() returns on Enter: the
\* Key::Char handler keeps alphabetic characters only, five at most
lower(w) == [i \in DOMAIN w |-> LowerSeq[Rank(w[i])]]

TypedInputs ==
    {lower(MasterList[i]) : i \in 1..(NumWords + 1)} \cup {<<"c", "r", "a">>}

\* the stats file when the game starts: no win and no failure yet, the
\* streaks at u16::MAX, so that a failure is counted as it is in any file and
\* a win meets the overflow of the streak
GameFiles == {StatsFile(Record(0, U16Max, U16Max))}

\* main.rs:19-22: the secret word is a Word, or main panics before the board
Init ==
    /\ hard = FALSE
    /\ contrast = FALSE
    /\ win = FALSE
    /\ turn = 0
    /\ \E s \in secret_options :
        /\ try_new(s, valid_guesses).ok
        /\ secret_word = try_new(s, valid_guesses).word
    /\ guesses = <<>>
    /\ pc = "welcome"
    /\ input = <<>>
    /\ msg = ""
    /\ check = <<>>
    /\ rows = <<>>
    /\ legal = valid_guesses
    /\ made = <<>>
    /\ file \in GameFiles
    /\ stats = <<>>

\* Key::Char('1'), in welcome() and in get_input()
hard_key_msg(h, gs) ==
    IF h THEN "Hard mode already enabled"
    ELSE IF gs = <<>> THEN "Hard mode enabled"
    ELSE "Cannot enable hard mode"

\* hard_key_flag without the look at the guesses
hard_key_flag_any_time(h, gs) == TRUE

hard_key_flag(h, gs) == IF ~h /\ gs = <<>> THEN TRUE ELSE h

\* Key::Char('2'), in welcome() and in get_input()
contrast_key_msg(c, gs) ==
    IF c THEN "High contrast mode already enabled"
    ELSE IF gs = <<>> THEN "High contrast mode enabled"
    ELSE "Cannot enable high contrast mode"

contrast_key_flag(c, gs) == IF ~c /\ gs = <<>> THEN TRUE ELSE c

WelcomeHardKey ==
    /\ pc = "welcome"
    /\ hard' = hard_key_flag(hard, guesses)
    /\ msg' = hard_key_msg(hard, guesses)
    /\ UNCHANGED <<contrast, win, turn, secret_word, guesses, pc, input, check, rows>>
    /\ UNCHANGED <<legal, made, file, stats>>

WelcomeContrastKey ==
    /\ pc = "welcome"
    /\ contrast' = contrast_key_flag(contrast, guesses)
    /\ msg' = contrast_key_msg(contrast, guesses)
    /\ UNCHANGED <<hard, win, turn, secret_word, guesses, pc, input, check, rows>>
    /\ UNCHANGED <<legal, made, file, stats>>

\* StartGame with the turn loop counting from 0: for turn in 0..=6
StartGame_turn_zero ==
    /\ pc = "welcome"
    /\ turn' = 0
    /\ pc' = "input"
    /\ msg' = ""
    /\ UNCHANGED <<hard, contrast, win, secret_word, guesses, input, check, rows>>
    /\ UNCHANGED <<legal, made, file, stats>>

\* Enter on the welcome screen, draw() of the blank board, and the turn loop
\* entered with turn = 1
StartGame ==
    /\ pc = "welcome"
    /\ turn' = 1
    /\ pc' = "input"
    /\ msg' = ""
    /\ UNCHANGED <<hard, contrast, win, secret_word, guesses, input, check, rows>>
    /\ UNCHANGED <<legal, made, file, stats>>

InputHardKey ==
    /\ pc = "input"
    /\ hard' = hard_key_flag(hard, guesses)
    /\ msg' = hard_key_msg(hard, guesses)
    /\ UNCHANGED <<contrast, win, turn, secret_word, guesses, pc, input, check, rows>>
    /\ UNCHANGED <<legal, made, file, stats>>

InputContrastKey ==
    /\ pc = "input"
    /\ contrast' = contrast_key_flag(contrast, guesses)
    /\ msg' = contrast_key_msg(contrast, guesses)
    /\ UNCHANGED <<hard, win, turn, secret_word, guesses, pc, input, check, rows>>
    /\ UNCHANGED <<legal, made, file, stats>>

\* Key::Char('`'), in welcome() and in get_input(): panic!("exiting program")
ExitKey ==
    /\ pc \in {"welcome", "input"}
    /\ pc' = "exited"
    /\ msg' = "Exiting"
    /\ UNCHANGED <<hard, contrast, win, turn, secret_word, guesses, input, check, rows>>
    /\ UNCHANGED <<legal, made, file, stats>>

\* main.rs:40-62: get_input() returns on Enter, the String goes through
\* Word::try_new and, in hard mode, hard_check; an error is printed and the
\* loop asks again, a Word that passes is pushed
\* the hard_check result ignored
accepted_unchecked(h, r, hc) == r.ok

\* no Word is ever taken
accepted_never(h, r, hc) == FALSE

accepted(h, r, hc) == r.ok /\ (h => hc.ok)

SubmitGuess ==
    /\ pc = "input"
    /\ \E raw \in TypedInputs : \E r \in {try_new(raw, valid_guesses)} :
        LET hc == hard_check(turn, guesses, secret_word, r.word)
        IN  /\ input' = raw
            /\ check' = IF r.ok /\ hard THEN <<hc>> ELSE <<>>
            /\ IF r.ok /\ hard /\ hc.panic
               THEN /\ pc' = "panicked"
                    /\ UNCHANGED <<guesses, msg>>
               ELSE IF accepted(hard, r, hc)
               THEN /\ guesses' = Append(guesses, r.word)
                    /\ pc' = "draw"
                    /\ msg' = ""
               ELSE /\ msg' = IF r.ok THEN hc.err ELSE r.err
                    /\ UNCHANGED <<guesses, pc>>
    /\ UNCHANGED <<hard, contrast, win, turn, secret_word, rows>>
    /\ UNCHANGED <<legal, made, file, stats>>

\* CheckGuess with the end of the loop looked at before the guess
CheckGuess_exhausted_first ==
    /\ pc = "check"
    /\ IF turn >= MaxTurns
       THEN /\ pc' = "win_message"
            /\ UNCHANGED <<win, turn>>
       ELSE IF check_guess(guesses, secret_word)
       THEN /\ win' = TRUE
            /\ pc' = "win_message"
            /\ UNCHANGED turn
       ELSE /\ turn' = turn + 1
            /\ pc' = "input"
            /\ UNCHANGED win
    /\ UNCHANGED <<hard, contrast, secret_word, guesses, input, msg, check, rows>>
    /\ UNCHANGED <<legal, made, file, stats>>

\* CheckGuess with the loop running one turn more: for turn in 1..=7
CheckGuess_seven_turns ==
    /\ pc = "check"
    /\ IF check_guess(guesses, secret_word)
       THEN /\ win' = TRUE
            /\ pc' = "win_message"
            /\ UNCHANGED turn
       ELSE IF turn < MaxTurns + 1
       THEN /\ turn' = turn + 1
            /\ pc' = "input"
            /\ UNCHANGED win
       ELSE /\ pc' = "win_message"
            /\ UNCHANGED <<win, turn>>
    /\ UNCHANGED <<hard, contrast, secret_word, guesses, input, msg, check, rows>>
    /\ UNCHANGED <<legal, made, file, stats>>

\* CheckGuess without the break: the loop goes on after a win
CheckGuess_no_break ==
    /\ pc = "check"
    /\ win' = (win \/ check_guess(guesses, secret_word))
    /\ IF turn < MaxTurns
       THEN /\ turn' = turn + 1
            /\ pc' = "input"
       ELSE /\ pc' = "win_message"
            /\ UNCHANGED turn
    /\ UNCHANGED <<hard, contrast, secret_word, guesses, input, msg, check, rows>>
    /\ UNCHANGED <<legal, made, file, stats>>

\* CheckGuess with the turn counted on before the break
CheckGuess_late_break ==
    /\ pc = "check"
    /\ IF check_guess(guesses, secret_word)
       THEN /\ win' = TRUE
            /\ pc' = "win_message"
            /\ turn' = turn + 1
       ELSE IF turn < MaxTurns
       THEN /\ turn' = turn + 1
            /\ pc' = "input"
            /\ UNCHANGED win
       ELSE /\ pc' = "win_message"
            /\ UNCHANGED <<win, turn>>
    /\ UNCHANGED <<hard, contrast, secret_word, guesses, input, msg, check, rows>>
    /\ UNCHANGED <<legal, made, file, stats>>

\* main.rs:67-72 and the head of the for loop (main.rs:34-37)
CheckGuess ==
    /\ pc = "check"
    /\ IF check_guess(guesses, secret_word)
       THEN /\ win' = TRUE
            /\ pc' = "win_message"
            /\ UNCHANGED turn
       ELSE IF turn < MaxTurns
       THEN /\ turn' = turn + 1
            /\ pc' = "input"
            /\ UNCHANGED win
       ELSE /\ pc' = "win_message"
            /\ UNCHANGED <<win, turn>>
    /\ UNCHANGED <<hard, contrast, secret_word, guesses, input, msg, check, rows>>
    /\ UNCHANGED <<legal, made, file, stats>>

\* Board::win_message: the message, then press_to_continue()
WinText == <<"Genius", "Magnificent", "Impressive", "Splendid", "Great", "Phew">>

WinMessage ==
    /\ pc = "win_message"
    /\ msg' = IF win THEN WinText[turn] ELSE "Failure"
    /\ pc' = "stats"
    /\ UNCHANGED <<hard, contrast, win, turn, secret_word, guesses, input, check, rows>>
    /\ UNCHANGED <<legal, made, file, stats>>

\* load over the files a specification starts with, worked out once
\* instead of at every step
loaded == [f \in StatsFiles \cup GameFiles |-> load(f)]

\* Board::stats, lib.rs:582-603: the stats vector is read from the file
StatsLoad ==
    /\ pc = "stats"
    /\ stats' = loaded[file]
    /\ pc' = "stats_update"
    /\ UNCHANGED <<hard, contrast, win, turn, secret_word, guesses, input, msg, check, rows>>
    /\ UNCHANGED <<legal, made, file>>

\* Board::stats, lib.rs:605-627: the round is counted.  Where a "+= 1"
\* overflows, a build with overflow checks panics and a build without them
\* wraps
StatsUpdate ==
    /\ pc = "stats_update"
    /\ \/ /\ update_overflows(stats, win, turn)
          /\ pc' = "panicked"
          /\ UNCHANGED stats
       \/ /\ stats' = update(stats, win, turn)
          /\ pc' = "stats_show"
    /\ UNCHANGED <<hard, contrast, win, turn, secret_word, guesses, input, msg, check, rows>>
    /\ UNCHANGED <<legal, made, file>>

\* Board::stats, lib.rs:629-709: the totals and the graph go on the screen;
\* the u16 total of the games played can overflow as above
StatsShow ==
    /\ pc = "stats_show"
    /\ \/ /\ show_overflows(stats)
          /\ pc' = "panicked"
       \/ pc' = "stats_save"
    /\ UNCHANGED <<hard, contrast, win, turn, secret_word, guesses, input, msg, check, rows>>
    /\ UNCHANGED <<legal, made, file, stats>>

\* Board::stats, lib.rs:711-739: the vector is written to the file, which
\* opens for writing
StatsSave ==
    /\ pc = "stats_save"
    /\ file' = save(file, stats)
    /\ msg' = "Stats saved"
    /\ pc' = "stats_exit"
    /\ UNCHANGED <<hard, contrast, win, turn, secret_word, guesses, input, check, rows>>
    /\ UNCHANGED <<legal, made, stats>>

\* Board::stats, lib.rs:740-753: press_to_continue(); main returns
Stats ==
    /\ pc = "stats_exit"
    /\ pc' = "done"
    /\ UNCHANGED <<hard, contrast, win, turn, secret_word, guesses, input, msg, check, rows>>
    /\ UNCHANGED <<legal, made, file, stats>>

Next ==
    \/ WelcomeHardKey
    \/ WelcomeContrastKey
    \/ StartGame
    \/ InputHardKey
    \/ InputContrastKey
    \/ ExitKey
    \/ SubmitGuess
    \/ Draw
    \/ CheckGuess
    \/ WinMessage
    \/ StatsLoad
    \/ StatsUpdate
    \/ StatsShow
    \/ StatsSave
    \/ Stats

Spec == Init /\ [][Next]_vars

\* a guess is accepted and pushed (main.rs:60)
Accept == pc = "input" /\ pc' = "draw" /\ SubmitGuess

\* the steps that take main forward: the code between two reads of the
\* keyboard runs on, and the player goes on playing: Enter on the welcome
\* screen, in each turn a guess that is accepted, a key for the win message
\* and a key for the stats screen
Progress ==
    \/ StartGame
    \/ Accept
    \/ Draw
    \/ CheckGuess
    \/ WinMessage
    \/ StatsLoad
    \/ StatsUpdate
    \/ StatsShow
    \/ StatsSave
    \/ Stats

\* the game with a player who goes on playing
SpecLive == Init /\ [][Next]_vars /\ WF_vars(Progress)

StatsNext ==
    \/ StatsLoad
    \/ StatsUpdate
    \/ StatsShow
    \/ StatsSave
    \/ Stats

SpecStats == InitStats /\ [][StatsNext]_vars

----------------------------------------------------------------------------
(* Properties of check_matches (SpecMatch) *)

CRANE == <<"C", "R", "A", "N", "E">>
GRAPE == <<"G", "R", "A", "P", "E">>
TRACE == <<"T", "R", "A", "C", "E">>
GRAPH == <<"G", "R", "A", "P", "H">>
ERROR == <<"E", "R", "R", "O", "R">>
MARRY == <<"M", "A", "R", "R", "Y">>

Positions == 1..WordLen

\* occ(l, w): the number of occurrences of the letter l in the word w
occ(l, w) == Cardinality({i \in Positions : w[i] = l})

Least(S) == CHOOSE i \in S : \A j \in S : i <= j

Smaller(a, b) == IF a <= b THEN a ELSE b

Scored == pc = "check" /\ Len(rows) = 1 /\ Len(guesses) = 1

Revealed(colours, guess, l) ==
    {i \in Positions : guess[i] = l /\ colours[i] \in {"Green", "Yellow"}}

\* C1: for every secret word S, guess G and letter l, the number of
\* positions of check_matches(S, G) that are Green or Yellow and hold l in
\* the guess never exceeds the number of occurrences of l in S.
C1_RevealsWithinSecretCount ==
    Scored =>
        \A l \in Upper :
            Cardinality(Revealed(rows[1], guesses[1], l)) <= occ(l, secret_word)

\* a scored guess that holds a letter of the secret word more often than
\* the secret word does
C1_Witness ==
    /\ Scored
    /\ \E l \in Upper :
        /\ occ(l, secret_word) > 0
        /\ occ(l, guesses[1]) > occ(l, secret_word)
        /\ Cardinality(Revealed(rows[1], guesses[1], l)) = occ(l, secret_word)

\* the two-pass reference scoring
RefGreen(S, G) == {i \in Positions : G[i] = S[i]}

RefYellow(S, G, i) ==
    /\ i \notin RefGreen(S, G)
    /\ Cardinality({j \in Positions \ RefGreen(S, G) : j < i /\ G[j] = G[i]})
         < occ(G[i], S) - Cardinality({j \in RefGreen(S, G) : G[j] = G[i]})

RefScore(S, G) ==
    [i \in Positions |->
        IF i \in RefGreen(S, G) THEN "Green"
        ELSE IF RefYellow(S, G, i) THEN "Yellow"
        ELSE "Grey"]

\* C2: check_matches equals the two-pass reference scoring: position i is
\* Green iff G[i] = S[i]; a non-green position i holding l is Yellow iff the
\* number of non-green positions j < i holding l is smaller than occ(l, S)
\* minus the number of green positions holding l; every other position is
\* Grey.  For secret MARRY and guess ERROR the result is
\* [Grey, Yellow, Green, Grey, Grey].
C2_EqualsTwoPassReference ==
    Scored =>
        /\ rows[1] = RefScore(secret_word, guesses[1])
        /\ (secret_word = MARRY /\ guesses[1] = ERROR)
            => rows[1] = <<"Grey", "Yellow", "Green", "Grey", "Grey">>

\* secret MARRY, guess ERROR, scored
C2_Witness ==
    /\ Scored
    /\ secret_word = MARRY
    /\ guesses[1] = ERROR

\* C23: for every secret S, guess G and letter l, the number of Green plus
\* Yellow positions holding l in check_matches(S, G) is exactly
\* min(occ(l, G), occ(l, S)); so the count that hard_check's Rule B requires
\* of the next guess is exactly the number of reveals of l shown to the
\* player for the previous guess.
C23_RuleBCountsTheReveals ==
    Scored =>
        \A l \in Upper :
            LET reveals == Cardinality(Revealed(rows[1], guesses[1], l))
            IN  /\ reveals = Smaller(occ(l, guesses[1]), occ(l, secret_word))
                /\ occ(l, guesses[1]) > 0 =>
                    required(l, guesses[1], secret_word) = reveals

\* a letter shown once Green and once Yellow for a guess that holds it more
\* often than the secret word: Rule B asks for two of it
C23_Witness ==
    /\ Scored
    /\ \E i, j \in Positions :
        /\ guesses[1][i] = guesses[1][j]
        /\ rows[1][i] = "Green"
        /\ rows[1][j] = "Yellow"
        /\ occ(guesses[1][i], guesses[1]) > occ(guesses[1][i], secret_word)
        /\ required(guesses[1][i], guesses[1], secret_word) = 2

----------------------------------------------------------------------------
(* Properties of hard_check (SpecHard) *)

NthLetterMustBe(i, l) ==
    CASE i = 1 -> "1st letter must be " \o l
      [] i = 2 -> "2nd letter must be " \o l
      [] i = 3 -> "3rd letter must be " \o l
      [] i = 4 -> "4th letter must be " \o l
      [] i = 5 -> "5th letter must be " \o l

GuessMustContain(l) == "Guess must contain " \o l

PositionMessages == {NthLetterMustBe(i, l) : i \in Positions, l \in Upper}
ContainMessages == {GuessMustContain(l) : l \in Upper}

\* hard_check has been applied to the attempt `input` with a previous guess
HardChecked == pc = "checked" /\ Len(check) = 1

\* Rule A: the green positions of the previous guess the attempt changes
Misplaced(prev, secret, attempt) ==
    {i \in Positions : prev[i] = secret[i] /\ attempt[i] # prev[i]}

\* Rule B: the positions of the previous guess whose letter the attempt
\* holds fewer times than min(occ in previous guess, occ in secret)
Missing(prev, secret, attempt) ==
    {i \in Positions :
        occ(prev[i], attempt) < Smaller(occ(prev[i], prev), occ(prev[i], secret))}

\* C3: with turn >= 2, if some index i has previousGuess[i] = secret[i] and
\* candidate[i] # previousGuess[i], hard_check fails with "Nth letter must be
\* L" for the lowest such index and its letter, whatever Rule B would say; a
\* candidate that keeps every exact-match letter of the previous guess in
\* place never gets this message.  With previous guess CRANE and secret
\* GRAPE, TRACE passes Rule A and GRAPH fails on the 5th letter, E.
C3_PositionViolationFirst ==
    (HardChecked /\ turn >= 2 /\ guesses # <<>>) =>
        LET prev == last(guesses)
            bad == Misplaced(prev, secret_word, input)
        IN  /\ bad # {} =>
                check[1] = [ok |-> FALSE, panic |-> FALSE,
                            err |-> NthLetterMustBe(Least(bad), prev[Least(bad)])]
            /\ bad = {} => check[1].err \notin PositionMessages
            /\ (prev = CRANE /\ secret_word = GRAPE /\ input = TRACE)
                => check[1].err \notin PositionMessages
            /\ (prev = CRANE /\ secret_word = GRAPE /\ input = GRAPH)
                => check[1].err = "5th letter must be E"

\* an attempt that breaks Rule A at two indices and Rule B as well, and is
\* told about the lower index
C3_Witness ==
    /\ HardChecked /\ turn >= 2 /\ guesses # <<>>
    /\ Cardinality(Misplaced(last(guesses), secret_word, input)) >= 2
    /\ Missing(last(guesses), secret_word, input) # {}
    /\ check[1].err \in PositionMessages

\* C4: with turn >= 2 and no Rule A violation, hard_check fails with "Guess
\* must contain L" iff some letter l of the previous guess has
\* occ(l, candidate) < min(occ(l, previousGuess), occ(l, secret)); the letter
\* reported is the first such letter in left-to-right order of the previous
\* guess; if there is none hard_check returns Ok.
C4_MinimumOccurrence ==
    (HardChecked /\ turn >= 2 /\ guesses # <<>>
        /\ Misplaced(last(guesses), secret_word, input) = {}) =>
        LET prev == last(guesses)
            short == Missing(prev, secret_word, input)
        IN  IF short # {}
            THEN check[1] = [ok |-> FALSE, panic |-> FALSE,
                             err |-> GuessMustContain(prev[Least(short)])]
            ELSE check[1] = [ok |-> TRUE, panic |-> FALSE, err |-> ""]

\* no Rule A violation, two different letters of the previous guess missing,
\* the first of them reported
C4_Witness ==
    /\ HardChecked /\ turn >= 2 /\ guesses # <<>>
    /\ Misplaced(last(guesses), secret_word, input) = {}
    /\ \E i, j \in Missing(last(guesses), secret_word, input) :
        last(guesses)[i] # last(guesses)[j]
    /\ check[1].err \in ContainMessages

\* C5: hard_check returns Ok for every candidate whenever the turn counter
\* is <= 1, whatever the secret word and the guess history.
C5_FirstGuessUnconstrained ==
    (HardChecked /\ turn <= 1) =>
        check[1] = [ok |-> TRUE, panic |-> FALSE, err |-> ""]

\* turn 1, Ok, with no previous guess at all
C5_Witness ==
    /\ HardChecked
    /\ turn = 1
    /\ guesses = <<>>
    /\ check[1].ok

\* C24: in hard mode the secret word is always an acceptable guess: for
\* every secret word, every turn and every guess history the turn loop can
\* hold at that turn (none before turn 2, a last guess from turn 2 on),
\* hard_check applied to the secret word returns Ok, so hard mode never
\* makes a round impossible to win.
C24_SecretWordPassesHardCheck ==
    (HardChecked /\ input = secret_word /\ (turn >= 2 => guesses # <<>>)) =>
        check[1] = [ok |-> TRUE, panic |-> FALSE, err |-> ""]

\* the secret word is tried at turn 2 after another guess that was shown a
\* Green and a Yellow letter and holds a letter more often than the secret
\* word, and passes
C24_Witness ==
    /\ HardChecked /\ turn = 2 /\ guesses # <<>>
    /\ input = secret_word
    /\ last(guesses) # secret_word
    /\ \E i, j \in Positions :
        LET shown == check_matches(secret_word, last(guesses))
        IN  /\ shown[i] = "Green"
            /\ shown[j] = "Yellow"
    /\ \E l \in Upper : occ(l, last(guesses)) > occ(l, secret_word)
    /\ check[1].ok

----------------------------------------------------------------------------
(* Properties of the turn loop (Spec) *)

TryNewMessages ==
    {"Please choose a 5-letter word", "Please choose a real word", "Not in word list"}

ErrorMessages == TryNewMessages \cup PositionMessages \cup ContainMessages

\* the step in which get_input() returns raw and main either prints an
\* error or pushes the guess
Submitted(raw) ==
    /\ pc = "input"
    /\ input' = raw
    /\ (msg' \in ErrorMessages \/ pc' = "draw")

\* Word::try_new or, in hard mode, hard_check turns raw down
Rejects(raw) ==
    \/ ~try_new(raw, valid_guesses).ok
    \/ /\ hard
       /\ ~hard_check(turn, guesses, secret_word, to_uppercase(raw)).ok

\* C6: when a guess is accepted it is appended to the guess history and
\* termination is evaluated in this order: the round completes as won if the
\* guess equals the secret; otherwise it completes as exhausted if the
\* history now holds 6 guesses; otherwise the round continues with the next
\* turn awaiting a guess.
C6_TerminationOrder ==
    [][ /\ (\E raw \in TypedInputs : Submitted(raw) /\ ~Rejects(raw))
            => /\ guesses' = Append(guesses, to_uppercase(input'))
               /\ pc' = "draw"
        /\ pc = "draw" => (pc' = "check" /\ guesses' = guesses)
        /\ pc = "check"
            => IF last(guesses) = secret_word
               THEN pc' = "win_message" /\ win'
               ELSE IF Len(guesses) = 6
               THEN pc' = "win_message" /\ ~win'
               ELSE pc' = "input" /\ turn' = turn + 1 /\ ~win'
      ]_vars

\* the sixth guess is the secret word: the round is won, not exhausted
C6_Witness ==
    /\ pc = "win_message"
    /\ win
    /\ Len(guesses) = 6
    /\ last(guesses) = secret_word

\* C7: when a submitted guess is rejected, by Word::try_new or, in hard
\* mode, by hard_check, the round is unchanged: the guess history, the turn
\* counter, the secret word, the win flag and the hard-mode flag keep their
\* values, and the player is asked again for the same turn.
C7_RejectionLeavesRound ==
    [][ \A raw \in TypedInputs :
            (Submitted(raw) /\ Rejects(raw))
                => /\ UNCHANGED <<guesses, turn, secret_word, win, hard>>
                   /\ pc' = "input"
                   /\ msg' \in ErrorMessages
      ]_vars

\* a guess turned down by hard_check on a later turn, the player asked again
C7_Witness ==
    /\ pc = "input"
    /\ hard
    /\ Len(check) = 1
    /\ ~check[1].ok
    /\ msg = check[1].err
    /\ Len(guesses) = turn - 1
    /\ turn >= 2

\* C8: in every reachable state the guess history holds at most 6 entries,
\* and every step either leaves it unchanged or appends exactly one validated
\* Word at its end; entries already in the history are never changed,
\* reordered or removed.
C8_HistoryAppendOnly ==
    /\ [](Len(guesses) <= 6)
    /\ [][ \/ guesses' = guesses
           \/ \E i \in DOMAIN valid_guesses :
                guesses' = Append(guesses, valid_guesses[i])
         ]_vars

\* six guesses in the history, the round over
C8_Witness ==
    /\ Len(guesses) = 6
    /\ pc = "done"

\* where main is while Board::stats runs
StatsSteps == {"stats", "stats_update", "stats_show", "stats_save", "stats_exit"}

\* the round is won, or exhausted: six guesses, the last one checked
RoundOver ==
    \/ win
    \/ Len(guesses) = 6 /\ pc \notin {"draw", "check"}

LastIsSecret == guesses # <<>> /\ last(guesses) = secret_word

\* C10 as stated: the win flag is true iff the last accepted guess equals
\* the secret word.
C10_WinIffLastIsSecret == win <=> LastIsSecret

\* C10 as amended: the win flag is true iff the last accepted guess equals
\* the secret word, from the moment the guess has been checked (main.rs:68):
\* while the turn loop waits for a guess and after the loop has ended.
C10_WinIffLastIsSecretOnceChecked ==
    pc \notin {"draw", "check"} => (win <=> LastIsSecret)

\* a won round after a wrong first guess
C10_Witness ==
    /\ win
    /\ pc = "win_message"
    /\ Len(guesses) >= 2
    /\ guesses[1] # secret_word

----------------------------------------------------------------------------
(* Properties of the round state (Spec) *)

\* main is in the turn loop
RoundActive == pc \in {"input", "draw", "check"}

\* C11 as stated: while the round is active the turn counter equals the
\* length of the guess history.
C11_TurnEqualsHistoryLength == RoundActive => turn = Len(guesses)

\* C11 as amended: the turn counter is the number of the guess being played.
\* While the turn loop waits for a guess it is the length of the guess
\* history plus one; from the push of the accepted guess until the guess has
\* been checked, and after the loop has ended, it is the length of the guess
\* history.
C11_TurnCountsGuessInPlay ==
    /\ pc = "input" => turn = Len(guesses) + 1
    /\ pc \in {"draw", "check", "win_message", "done"} \cup StatsSteps
        => turn = Len(guesses)

\* the third guess is awaited, two guesses are in the history
C11_Witness ==
    /\ pc = "input"
    /\ turn = 3
    /\ Len(guesses) = 2

\* what a round consists of, the message line aside
RoundState ==
    <<hard, contrast, win, turn, secret_word, guesses, pc, input, check, rows>>

\* C12: the hard-mode flag, and likewise the contrast flag, changes only
\* from false to true and only while the guess history is empty; a request
\* to enable it after a guess has been accepted is reported to the player
\* and leaves the whole round state unchanged.
C12_FlagsSetOnlyBeforeFirstGuess ==
    [][ /\ hard' # hard => (~hard /\ hard' /\ guesses = <<>> /\ guesses' = <<>>)
        /\ contrast' # contrast
            => (~contrast /\ contrast' /\ guesses = <<>> /\ guesses' = <<>>)
        /\ (InputHardKey /\ guesses # <<>>)
            => /\ msg' = IF hard THEN "Hard mode already enabled"
                         ELSE "Cannot enable hard mode"
               /\ UNCHANGED RoundState
        /\ (InputContrastKey /\ guesses # <<>>)
            => /\ msg' = IF contrast THEN "High contrast mode already enabled"
                         ELSE "Cannot enable high contrast mode"
               /\ UNCHANGED RoundState
      ]_vars

\* hard mode asked for on the second turn and turned down
C12_Witness ==
    /\ pc = "input"
    /\ guesses # <<>>
    /\ ~hard
    /\ msg = "Cannot enable hard mode"

\* guess g keeps what guess p revealed of the secret word: its exact
\* matches stay in place, and each of its letters comes at least as often as
\* p showed the secret word to hold it
Keeps(g, p, secret) ==
    /\ \A i \in Positions : p[i] = secret[i] => g[i] = p[i]
    /\ \A i \in Positions :
        occ(p[i], g) >= Smaller(occ(p[i], p), occ(p[i], secret))

\* C13: in a hard-mode round every accepted guess reuses all previously
\* revealed letter information, not only that of the guess before it: for
\* every pair of accepted guesses g_j before g_k, g_k has every exact-match
\* letter of g_j at the same index and, for every letter l of g_j, contains
\* at least min(occ(l, g_j), occ(l, secret)) copies of l.
C13_HardGuessesKeepAllRevealed ==
    hard => \A j \in DOMAIN guesses : \A k \in DOMAIN guesses :
                j < k => Keeps(guesses[k], guesses[j], secret_word)

\* three different guesses in hard mode, the first with an exact match and a
\* misplaced letter of the secret word
C13_Witness ==
    /\ hard
    /\ Len(guesses) >= 3
    /\ guesses[1] # guesses[2]
    /\ guesses[2] # guesses[3]
    /\ guesses[1] # guesses[3]
    /\ \E i \in Positions : guesses[1][i] = secret_word[i]
    /\ \E i \in Positions :
        /\ guesses[1][i] # secret_word[i]
        /\ occ(guesses[1][i], secret_word) > 0

----------------------------------------------------------------------------
(* Properties of Word::try_new (SpecWord) *)

Made == pc = "made" /\ Len(made) = 1

Entries(list) == {list[i] : i \in DOMAIN list}

Letters == Upper \cup Lower

AllLetters(raw) == \A i \in DOMAIN raw : raw[i] \in Letters

\* C14: Word::try_new(raw, legal) returns Ok exactly when raw has 5
\* characters, all of them alphabetic, and the uppercased raw is an element
\* of legal; the Word returned holds the uppercased raw as contents ("Mateo"
\* with the legal list [MATEO] gives MATEO), and the legal list is not
\* modified.
C14_OkIffFiveLettersInList ==
    /\ [](Made =>
            /\ made[1].ok <=> /\ Len(input) = 5
                              /\ AllLetters(input)
                              /\ to_uppercase(input) \in Entries(legal)
            /\ made[1].ok => made[1].word = to_uppercase(input)
            /\ (input = Mateo /\ legal = << <<"M", "A", "T", "E", "O">> >>)
                => made[1] = Ok(<<"M", "A", "T", "E", "O">>))
    /\ [][legal' = legal]_vars

\* a word typed in small and capital letters, found in a list of two
C14_Witness ==
    /\ Made
    /\ made[1].ok
    /\ input # made[1].word
    /\ Len(legal) = 2
    /\ legal[2] = made[1].word
    /\ legal[1] # legal[2]

\* C15: Word::try_new checks the length, then the alphabetic characters,
\* then the list membership, and reports the first check that fails:
\* WrongLength whenever the character count is not 5, even when the
\* uppercased word is in the legal list; NonAlphabetic when the count is 5
\* and some character is not a letter, even when the uppercased word is in
\* the legal list; NotInWordList only when the word has 5 letters and its
\* uppercase form is not in the list.
C15_FirstFailedCheckReported ==
    Made =>
        /\ Len(input) # 5 => made[1] = Err("Please choose a 5-letter word")
        /\ (Len(input) = 5 /\ ~AllLetters(input))
            => made[1] = Err("Please choose a real word")
        /\ made[1].err = "Not in word list"
            <=> /\ Len(input) = 5
                /\ AllLetters(input)
                /\ to_uppercase(input) \notin Entries(legal)

\* a string with a digit whose uppercase form is in the list
C15_Witness ==
    /\ Made
    /\ Len(input) = 5
    /\ ~AllLetters(input)
    /\ to_uppercase(input) \in Entries(legal)
    /\ made[1].err = "Please choose a real word"

----------------------------------------------------------------------------
(* Properties of Board::stats (SpecStats) *)

Larger(a, b) == IF a >= b THEN a ELSE b

\* the update in the integers: a win on turn t adds 1 to counter t and to
\* the current streak, a failure adds 1 to the failures and resets the
\* current streak; then the max streak is the larger of the two streaks
Claimed(st, w, t) ==
    LET c == IF w
             THEN [st EXCEPT ![t] = @ + 1, ![8] = @ + 1]
             ELSE [st EXCEPT ![7] = @ + 1, ![8] = 0]
    IN  [c EXCEPT ![9] = Larger(c[9], c[8])]

\* C16: the stats update on the 9-counter record: on a win at turn t it adds
\* 1 to counter t-1 and 1 to the current streak; on a loss it adds 1 to the
\* loss counter (index 6) and sets the current streak to 0; then max streak
\* becomes max(max streak, current streak); no other counter changes.
\* Applied to all zeros, a win on turn 3 gives [0,0,1,0,0,0,0,1,1], and a
\* loss applied next leaves streak 0 and max streak 1.
C16_UpdateAddsOne ==
    [][ pc = "stats_update"
            => /\ pc' = "stats_show"
               /\ stats' = Claimed(stats, win, turn)
               /\ (stats = ZeroStats /\ win /\ turn = 3)
                    => stats' = <<0, 0, 1, 0, 0, 0, 0, 1, 1>>
               /\ (stats = <<0, 0, 1, 0, 0, 0, 0, 1, 1>> /\ ~win)
                    => (stats'[8] = 0 /\ stats'[9] = 1)
      ]_vars

\* a win counted on a current streak of u16::MAX: the streak is back at 0
C16_Witness ==
    /\ pc = "stats_show"
    /\ win
    /\ load(file)[8] = U16Max
    /\ stats[8] = 0

\* Board::stats has updated the vector
Updated == pc \in {"stats_show", "stats_save", "stats_exit", "done"}

\* C17: after every stats update max streak >= current streak, for every
\* 9-counter record that can be loaded, including a record whose stored max
\* streak is smaller than its stored current streak.
C17_MaxStreakAtLeastCurrent == Updated => stats[9] >= stats[8]

\* a win counted on a record whose max streak was below its current streak
C17_Witness ==
    /\ Updated
    /\ win
    /\ load(file)[9] < load(file)[8]
    /\ stats[8] = load(file)[8] + 1
    /\ stats[9] = stats[8]

\* Board::stats has read the file
Loaded == pc = "stats_update"

FileLines == lines(file.bytes)

\* the file is there and holds exactly nine lines, each of them a number
NineNumbers ==
    /\ file.exists
    /\ Len(FileLines) = 9
    /\ \A i \in DOMAIN FileLines : parse_u16(FileLines[i]).ok

\* C20: on load, whenever the stats file is missing, malformed, or does not
\* contain exactly 9 parseable non-negative integers, the counters used are
\* all zero and never a partially parsed record; this holds for a file with
\* an unparseable line among numeric lines and for a file with more than 9
\* numeric lines.
C20_ZerosUnlessNineNumbers == (Loaded /\ ~NineNumbers) => stats = ZeroStats

\* a file of ten lines, one of them not a number, read as the record of
\* its nine numbers
C20_Witness ==
    /\ Loaded
    /\ Len(FileLines) = 10
    /\ \E i \in DOMAIN FileLines : ~parse_u16(FileLines[i]).ok
    /\ stats # ZeroStats

\* Board::stats has written the file
Saved == pc \in {"stats_exit", "done"}

\* the text of nine counters, one per line
NineCounterText(st) ==
    to_string(st[1]) \o <<"\n">> \o to_string(st[2]) \o <<"\n">>
        \o to_string(st[3]) \o <<"\n">> \o to_string(st[4]) \o <<"\n">>
        \o to_string(st[5]) \o <<"\n">> \o to_string(st[6]) \o <<"\n">>
        \o to_string(st[7]) \o <<"\n">> \o to_string(st[8]) \o <<"\n">>
        \o to_string(st[9]) \o <<"\n">>

\* C21: on save the stats file holds exactly the 9 updated counters, one
\* per line in the fixed order wins-on-turn-1..6, losses, current streak,
\* max streak, and nothing else: no content of the previous file remains,
\* also when the new text is shorter than the old one (e.g. a streak of 12
\* reset to 0).
C21_FileIsTheNineCounters ==
    Saved => (file.exists /\ file.bytes = NineCounterText(stats))

\* the streak of 12 reset to 0 by a failed round: the new text is one byte
\* shorter and the last byte of the old file is still there
C21_Witness ==
    /\ Saved
    /\ ~win
    /\ stats = <<3, 4, 5, 0, 0, 0, 3, 0, 12>>
    /\ file.bytes = NineCounterText(stats) \o <<"\n">>

----------------------------------------------------------------------------
(* Properties of the end of the round (Spec) *)

\* C18: the stats record is loaded, updated and saved exactly once per
\* completed round, and only after the round has reached won or exhausted; a
\* round that is abandoned before completion (exit key during input) changes
\* no counter.  Step by step: the vector and the file change only in
\* Board::stats of a round that is over; a round that is over goes from the
\* win message through the load, the update, the stats screen and the save
\* to the end of main, each done once; the exit key leaves the vector and
\* the file as they are.
C18_StatsOncePerCompletedRound ==
    [][ /\ (stats' # stats \/ file' # file) => (RoundOver /\ pc \in StatsSteps)
        /\ (RoundOver /\ pc = "win_message") => pc' = "stats"
        /\ pc = "stats" => (pc' = "stats_update" /\ stats' = load(file))
        /\ pc = "stats_update"
            => (pc' = "stats_show" /\ stats' = update(stats, win, turn))
        /\ pc = "stats_show" => (pc' = "stats_save" /\ stats' = stats)
        /\ pc = "stats_save"
            => (pc' = "stats_exit" /\ file' = save(file, stats) /\ stats' = stats)
        /\ pc = "stats_exit" => (pc' = "done" /\ file' = file /\ stats' = stats)
        /\ pc' = "exited" => (file' = file /\ stats' = stats /\ stats = <<>>)
      ]_vars

\* a round that was won and whose stats were not saved: Board::stats
\* panicked on the overflow of the current streak
C18_Witness ==
    /\ pc = "panicked"
    /\ win
    /\ RoundOver
    /\ file \in GameFiles
    /\ stats = load(file)

\* main has left the turn loop and has not panicked
RoundEnded == pc \in {"win_message", "done"} \cup StatsSteps

\* C19: at round end the outcome used by the stats update agrees with the
\* guess history: if won, the winning turn equals the number of accepted
\* guesses, lies in 1..6, and the last guess is the only one equal to the
\* secret; if not won, exactly 6 guesses were accepted and none of them
\* equals the secret.
C19_OutcomeAgreesWithHistory ==
    RoundEnded =>
        IF win
        THEN /\ turn = Len(guesses)
             /\ turn \in 1..6
             /\ \A i \in DOMAIN guesses : guesses[i] = secret_word <=> i = turn
        ELSE /\ Len(guesses) = 6
             /\ \A i \in DOMAIN guesses : guesses[i] # secret_word

\* the update is about to count a win on the fourth turn
C19_Witness ==
    /\ pc = "stats_update"
    /\ win
    /\ turn = 4
    /\ Len(guesses) = 4

----------------------------------------------------------------------------
(* hard_check and the guess history (Spec) *)

\* C25: hard_check never reads a missing previous guess: whenever a
\* candidate is validated in the turn loop the turn counter equals the number
\* of accepted guesses plus 1, so with turn >= 2 the guess history is
\* non-empty (the unwrap of the last guess cannot panic) and with an empty
\* history the turn <= 1 guard returns Ok first.  No result of hard_check is
\* the panic, and the program panics nowhere but in Board::stats.
C25_PreviousGuessIsThere ==
    /\ pc = "input" =>
        /\ turn = Len(guesses) + 1
        /\ turn >= 2 => guesses # <<>>
        /\ guesses = <<>> =>
            /\ turn <= 1
            /\ \A w \in secret_options :
                hard_check(turn, guesses, secret_word, w) = Pass
    /\ \A i \in DOMAIN check : ~check[i].panic
    /\ pc = "panicked" => stats # <<>>

\* in hard mode a candidate has been validated against the previous guess
\* at a turn after the first, and turned down
C25_Witness ==
    /\ pc = "input"
    /\ hard
    /\ turn >= 2
    /\ try_new(input, valid_guesses).ok
    /\ check = <<Fail(msg)>>
    /\ msg # ""

----------------------------------------------------------------------------
(* Termination of the round (SpecLive) *)

\* main has ended: it returned, or it panicked (the exit key included)
Ended == pc \in {"done", "exited", "panicked"}

\* C22: every round terminates: if on each turn the player eventually
\* enters a guess that is accepted, the round reaches Complete (won or
\* exhausted) after at most 6 accepted guesses, and the end-of-round steps
\* (win message, stats) then run; no state with fewer than 6 guesses and no
\* win is stuck without an acceptable guess.  In the model: main ends in
\* every behaviour; it ends with the exit key only before the round is
\* complete, and otherwise with the round complete and Board::stats run, to
\* its end or to its panic.
C22_RoundTerminates ==
    /\ [](pc = "input" =>
            /\ Len(guesses) < 6
            /\ ~win
            /\ \E raw \in TypedInputs : ~Rejects(raw))
    /\ [](Len(guesses) <= 6)
    /\ [](pc = "exited" => ~RoundOver)
    /\ [](pc = "done" => (RoundOver /\ stats # <<>> /\ msg = "Stats saved"))
    /\ [](pc = "panicked" => (RoundOver /\ stats # <<>>))
    /\ <>Ended

\* a hard-mode round exhausted after six guesses, main returned
C22_Witness ==
    /\ pc = "done"
    /\ hard
    /\ ~win
    /\ Len(guesses) = 6
    /\ msg = "Stats saved"

====
